---- MODULE Spec2Model ----
(***************************************************************************)
(* A model of src/Triggers.py: the ACTIONS registry of generator-based     *)
(* consumers, the instrumentation wrappers that broadcast a call record    *)
(* to the registry before running the wrapped function, the registration   *)
(* API and the dump_and_restore scope.                                     *)
(*                                                                         *)
(* Python's call stack is explicit (the variable stack), so that a         *)
(* broadcast that is re-entered from an action, an exception unwinding     *)
(* through generators and wrappers, and a scope opened in the middle of a  *)
(* broadcast are all steps of the model.  A list object has an identity    *)
(* (an index into heap): `for action in ACTIONS` keeps iterating the list  *)
(* object it started with after the global ACTIONS has been rebound.       *)
(***************************************************************************)
EXTENDS Integers, Sequences, FiniteSets, TLC

VARIABLES
    Actions,    \* the global ACTIONS: the identity (index into heap) of the live list
    heap,       \* the list objects ever bound to ACTIONS: heap[l] is a sequence of generator ids
    gens,       \* the generators created by the two coroutine functions, in creation order
    wrappers,   \* the functions for which an instrumentation wrapper has been made
    stack,      \* Python's call stack below the top-level code, innermost frame last
    exc,        \* the exception being propagated, "none" when there is none
    retval,     \* the value returned by the frame that returned last
    log,        \* what has been observed since the current top-level statement began
    nscopes,    \* number of top-level dump_and_restore scopes entered so far
    born        \* history: born[c] is the number of open scopes when generator c was registered

vars == <<Actions, heap, gens, wrappers, stack, exc, retval, log, nscopes, born>>

----------------------------------------------------------------------------
(* Bounds of the model. *)

MaxGens == 2        \* generators ever created
MaxScopes == 2      \* top-level dump_and_restore scopes entered
MaxArg == 1         \* positional argument values are 0..MaxArg
MaxN == 5           \* fib is called with 0..MaxN
MaxInner == 2       \* generators created by actions and by function bodies

----------------------------------------------------------------------------
(* The client's functions.  f_a and f_b are two distinct functions that    *)
(* are both named "f"; g is named "g".                                     *)

FuncIds == {"f_a", "f_b", "g"}

DefName(fn) == IF fn \in {"f_a", "f_b"} THEN "f" ELSE fn

\* A function object: the function as defined (raw), or the `call` closure
\* an instrumentation decorator returned for it.
Raw(fn) == [fn |-> fn, wr |-> FALSE]
Wrapper(fn) == [fn |-> fn, wr |-> TRUE]

\* Mutant of wraps: the decorator line is missing, and the closure keeps the
\* name it was defined with.
wraps_missing(fn) == "call"

\* functools.wraps(f) copies f.__name__ onto the closure.
wraps(fn) == DefName(fn)

\* o.__name__
Name(o) == IF o.wr THEN wraps(o.fn) ELSE DefName(o.fn)

\* The argument tuples the client calls with: () and (x,).
ArgTuples == {<<>>} \cup {<<x>> : x \in 0..MaxArg}

\* Mutant of func: the positional arguments are passed in the kwargs place.
func_args_as_kwargs(function, args) ==
    [function |-> function, args |-> <<>>, kwargs |-> args]

\* func = namedtuple('func', 'function args kwargs'); no call of the model
\* passes keyword arguments.
func(function, args) == [function |-> function, args |-> args, kwargs |-> <<>>]

----------------------------------------------------------------------------
(* Predicates and matching. *)

\* inspect_even(f): len(f.args) > 0 and f.args[0] % 2 == 0
inspect_even(result) == Len(result.args) > 0 /\ result.args[1] % 2 = 0

\* A second client predicate: lambda f: len(f.args) > 0
has_args(result) == Len(result.args) > 0

\* A client predicate that does not look at the length first:
\* lambda f: f.args[0] % 2 == 0.  It raises IndexError when f.args is empty.
first_even(result) == result.args[1] % 2 = 0

Preds == {"inspect_even", "has_args"}

condition(p, result) ==
    CASE p = "inspect_even" -> inspect_even(result)
      [] p = "has_args" -> has_args(result)
      [] p = "first_even" -> first_even(result)

\* condition(result) raises.
ConditionRaises(p, result) == p = "first_even" /\ Len(result.args) = 0

\* Mutant of funcs_equal: the function objects themselves are compared.
funcs_equal_by_identity(f, g) == f = g

funcs_equal(f, g) == Name(f) = Name(g)

\* Mutant of AnyTrigger: all in place of any.
AllTriggers(trigger, function) ==
    \A j \in 1..Len(trigger) : funcs_equal(trigger[j], function)

\* any([funcs_equal(t, function) for t in trigger])
AnyTrigger(trigger, function) ==
    \E j \in 1..Len(trigger) : funcs_equal(trigger[j], function)

\* Mutant of AllConditions: any in place of all.
AnyCondition(conditions, result) ==
    \E j \in 1..Len(conditions) : condition(conditions[j], result)

\* all([condition(result) for condition in conditions])
AllConditions(conditions, result) ==
    \A j \in 1..Len(conditions) : condition(conditions[j], result)

\* Mutant of PredicateRaises: `funcs and all(condition(result) for ...)`, the
\* predicates are evaluated for a watched function only, and up to the
\* first that is false.
PredicateRaises_lazy(gen, result) ==
    /\ gen.co = "conditional_action_on_triggers"
    /\ AnyTrigger(gen.trigger, result.function)
    /\ \E j \in 1..Len(gen.conditions) :
          /\ ConditionRaises(gen.conditions[j], result)
          /\ \A i \in 1..(j - 1) : condition(gen.conditions[i], result)

\* Line 59: the list [condition(result) for condition in conditions] is
\* built in full, for every record, before all() and `funcs and` look at
\* it; so the line raises when any of the predicates does.
PredicateRaises(gen, result) ==
    /\ gen.co = "conditional_action_on_triggers"
    /\ \E j \in 1..Len(gen.conditions) : ConditionRaises(gen.conditions[j], result)

\* Lines 41-43 and 57-60: does the generator call func_to_wrap(result)?
Fires(gen, result) ==
    IF gen.co = "action_on_triggers"
    THEN AnyTrigger(gen.trigger, result.function)
    ELSE AnyTrigger(gen.trigger, result.function)
         /\ AllConditions(gen.conditions, result)

----------------------------------------------------------------------------
(* Generators and the registry. *)

\* @coro: the generator is created and advanced to its first yield.
action_on_triggers(func_to_wrap, trigger) ==
    [co |-> "action_on_triggers", action |-> func_to_wrap,
     conditions |-> <<>>, trigger |-> trigger, st |-> "suspended"]

conditional_action_on_triggers(func_to_wrap, conditions, trigger) ==
    [co |-> "conditional_action_on_triggers", action |-> func_to_wrap,
     conditions |-> conditions, trigger |-> trigger, st |-> "suspended"]

\* The objects the registration API changes: the generators that exist and
\* the list objects.
Store == [gens |-> gens, heap |-> heap]

\* Mutant of add_action: ACTIONS.insert(0, action).
add_action_in_front(S, action) ==
    [gens |-> Append(S.gens, action),
     heap |-> [S.heap EXCEPT ![Actions] = <<Len(S.gens) + 1>> \o @]]

\* add_action(action): ACTIONS.append(action), on the list object that is
\* live now.  The generator passed in is new (lines 163 and 167 create it in
\* the argument), so it gets the next id.
add_action(S, action) ==
    [gens |-> Append(S.gens, action),
     heap |-> [S.heap EXCEPT ![Actions] = Append(@, Len(S.gens) + 1)]]

trigger_func(S, f, triggers) ==
    add_action(S, action_on_triggers(f, triggers))

conditional_trigger_func(S, f, conditions, triggers) ==
    add_action(S, conditional_action_on_triggers(f, conditions, triggers))

\* Lines 146-147: for action in actions: conditional_trigger_func(action, conditions, f)
RECURSIVE RegisterEach(_, _, _, _)
RegisterEach(S, actions, conditions, f) ==
    IF actions = <<>> THEN S
    ELSE RegisterEach(conditional_trigger_func(S, Head(actions), conditions, <<f>>),
                      Tail(actions), conditions, f)

----------------------------------------------------------------------------
(* Frames and the log. *)

Frame(t, k, fn, args, c, lst, i, pc, save) ==
    [t |-> t, k |-> k, fn |-> fn, args |-> args, c |-> c, lst |-> lst,
     i |-> i, pc |-> pc, save |-> save]

\* The wrapper's `call` closure for call number k; it runs
\* _broadcast_funccall, whose `for action in ACTIONS` iterates list lst and
\* is about to send to position i.
CallFrame(k, fn, args, lst) == Frame("call", k, fn, args, 0, lst, 1, "bcast", 0)

\* The generator c resumed with the record of call k, inside its action.
GenFrame(k, fn, args, c) == Frame("gen", k, fn, args, c, 0, 0, "start", 0)

\* The body of function fn; k is 0 when it was not called through a wrapper.
BodyFrame(k, fn, args) == Frame("body", k, fn, args, 0, 0, 0, "start", 0)

\* A top-level `with dump_and_restore():` block; save is save_actions and
\* lst the list that line 88 has made.
WithFrame(save, lst) == Frame("with", 0, "", <<>>, 0, lst, 0, "env", save)

\* The open dump_and_restore scopes: the with blocks of top-level code and
\* the with block of an enter_pdb_on_error that is executing.
ScopeDepth ==
    Cardinality({j \in 1..Len(stack) :
                    \/ stack[j].t = "with"
                    \/ stack[j].t = "gen" /\ stack[j].pc \in {"try", "caught"}})

\* An observation: what happened (e), in which wrapper call (k), to or by
\* which generator (c), with which function and arguments, and a value.
Event(e, k, c, fn, args, v) ==
    [e |-> e, k |-> k, c |-> c, fn |-> fn, args |-> args, v |-> v,
     reg |-> <<>>, lst |-> 0]

\* The wrapper of fn is called, by the action of generator c (0: by
\* top-level code), while the live list is lst and holds reg.
CallEvent(k, c, fn, args) ==
    [e |-> "call", k |-> k, c |-> c, fn |-> fn, args |-> args, v |-> 0,
     reg |-> heap[Actions], lst |-> Actions]

Top == stack[Len(stack)]
Pop(s) == SubSeq(s, 1, Len(s) - 1)
SetTop(s, f) == [s EXCEPT ![Len(s)] = f]

\* The top-level code (or the block of a top-level with statement) is running.
TopLevelFrame == IF stack = <<>> THEN TRUE ELSE Top.t = "with"

AtTopLevel == exc = "none" /\ TopLevelFrame

Running(t) == exc = "none" /\ stack # <<>> /\ Top.t = t

\* An exception has reached a frame of kind t.
Raising(t) == exc # "none" /\ stack # <<>> /\ Top.t = t

\* The number of the next wrapper call since the log began.
NextCallId == Cardinality({j \in 1..Len(log) : log[j].e = "call"}) + 1

Init ==
    /\ Actions = 1
    /\ heap = << <<>> >>
    /\ gens = <<>>
    /\ wrappers = {}
    /\ stack = <<>>
    /\ exc = "none"
    /\ retval = 0
    /\ log = <<>>
    /\ nscopes = 0
    /\ born = <<>>

----------------------------------------------------------------------------
(* The registration API and the decorators, called by top-level code. *)

Registered(S) ==
    /\ Len(S.gens) <= MaxGens
    /\ gens' = S.gens
    /\ heap' = S.heap
    /\ born' = born \o [j \in 1..(Len(S.gens) - Len(gens)) |-> ScopeDepth]

\* @add_trigger
add_trigger(f) ==
    /\ AtTopLevel
    /\ f \notin wrappers
    /\ wrappers' = wrappers \cup {f}
    /\ log' = <<>>
    /\ UNCHANGED <<born, Actions, heap, gens, stack, exc, retval, nscopes>>

\* @add_trigger_with_action(action)
add_trigger_with_action(action, f) ==
    /\ AtTopLevel
    /\ f \notin wrappers
    /\ Registered(trigger_func(Store, action, <<Raw(f)>>))
    /\ wrappers' = wrappers \cup {f}
    /\ log' = <<>>
    /\ UNCHANGED <<Actions, stack, exc, retval, nscopes>>

\* @add_conditional_trigger_with_actions(conditions, action)
add_conditional_trigger_with_actions(conditions, action, f) ==
    /\ AtTopLevel
    /\ f \notin wrappers
    /\ Registered(conditional_trigger_func(Store, action, conditions, <<Raw(f)>>))
    /\ wrappers' = wrappers \cup {f}
    /\ log' = <<>>
    /\ UNCHANGED <<Actions, stack, exc, retval, nscopes>>

\* @add_conditional_trigger_with_actions_list(conditions, actions)
add_conditional_trigger_with_actions_list(conditions, actions, f) ==
    /\ AtTopLevel
    /\ f \notin wrappers
    /\ Registered(RegisterEach(Store, actions, conditions, Raw(f)))
    /\ wrappers' = wrappers \cup {f}
    /\ log' = <<>>
    /\ UNCHANGED <<Actions, stack, exc, retval, nscopes>>

\* trigger_func(action, *triggers) called directly
call_trigger_func(action, triggers) ==
    /\ AtTopLevel
    /\ Registered(trigger_func(Store, action, triggers))
    /\ log' = <<>>
    /\ UNCHANGED <<Actions, wrappers, stack, exc, retval, nscopes>>

\* conditional_trigger_func(action, conditions, *triggers) called directly
call_conditional_trigger_func(action, conditions, triggers) ==
    /\ AtTopLevel
    /\ Registered(conditional_trigger_func(Store, action, conditions, triggers))
    /\ log' = <<>>
    /\ UNCHANGED <<Actions, wrappers, stack, exc, retval, nscopes>>

----------------------------------------------------------------------------
(* The instrumentation wrapper and the broadcast. *)

\* Top-level code calls the wrapper of f: call(*args) enters
\* _broadcast_funccall(f, *args), whose for statement evaluates ACTIONS.
call(f, args) ==
    /\ AtTopLevel
    /\ f \in wrappers
    /\ stack' = Append(stack, CallFrame(1, f, args, Actions))
    /\ log' = <<CallEvent(1, 0, f, args)>>
    /\ UNCHANGED <<born, Actions, heap, gens, wrappers, exc, retval, nscopes>>

\* The generator the broadcast on top of the stack is about to send to.
Target == heap[Top.lst][Top.i]

Broadcasting ==
    /\ Running("call")
    /\ Top.pc = "bcast"
    /\ Top.i <= Len(heap[Top.lst])

\* The stack after the generator on top has reached its yield again and
\* send has returned to the for loop of the broadcast below it.
Yielded(s) == SetTop(Pop(s), [s[Len(s) - 1] EXCEPT !.i = @ + 1])

\* action.send(function_info) to a suspended generator: lines 40-44 or
\* 56-61 run.  Either the action is entered, or the generator loops to its
\* yield and the for loop goes on.
send ==
    /\ Broadcasting
    /\ gens[Target].st = "suspended"
    /\ ~PredicateRaises(gens[Target], func(Raw(Top.fn), Top.args))
    /\ LET c == Target
           function_info == func(Raw(Top.fn), Top.args)
           recv == Event("recv", Top.k, c, Top.fn, Top.args, 0)
           fire == Event("fire", Top.k, c, function_info.function.fn,
                         function_info.args, 0)
       IN IF Fires(gens[c], function_info)
          THEN /\ gens' = [gens EXCEPT ![c].st = "running"]
               /\ stack' = Append(stack, GenFrame(Top.k, Top.fn, Top.args, c))
               /\ log' = log \o <<recv, fire>>
          ELSE /\ gens' = gens
               /\ stack' = SetTop(stack, [Top EXCEPT !.i = @ + 1])
               /\ log' = Append(log, recv)
    /\ UNCHANGED <<born, Actions, heap, wrappers, exc, retval, nscopes>>

\* action.send(function_info) to a suspended conditional generator one of
\* whose predicates raises on the record: the exception leaves line 59 and
\* the generator, which is finished, and send raises it in the broadcast.
send_condition_raises ==
    /\ Broadcasting
    /\ gens[Target].st = "suspended"
    /\ PredicateRaises(gens[Target], func(Raw(Top.fn), Top.args))
    /\ gens' = [gens EXCEPT ![Target].st = "closed"]
    /\ exc' = "IndexError"
    /\ log' = log \o <<Event("recv", Top.k, Target, Top.fn, Top.args, 0),
                        Event("pred", Top.k, Target, Top.fn, Top.args, 0)>>
    /\ UNCHANGED <<born, Actions, heap, wrappers, stack, retval, nscopes>>

\* send to a generator that is executing: ValueError, raised in the sender.
send_running ==
    /\ Broadcasting
    /\ gens[Target].st = "running"
    /\ exc' = "ValueError"
    /\ UNCHANGED <<born, Actions, heap, gens, wrappers, stack, retval, log, nscopes>>

\* Mutant of send_closed: the broadcast skips a finished generator.
send_closed_skipped ==
    /\ Broadcasting
    /\ gens[Target].st = "closed"
    /\ stack' = SetTop(stack, [Top EXCEPT !.i = @ + 1])
    /\ UNCHANGED <<born, Actions, heap, gens, wrappers, exc, retval, log, nscopes>>

\* send to a generator that an exception has finished: StopIteration.
send_closed ==
    /\ Broadcasting
    /\ gens[Target].st = "closed"
    /\ exc' = "StopIteration"
    /\ UNCHANGED <<born, Actions, heap, gens, wrappers, stack, retval, log, nscopes>>

\* Mutant of call_body: the for loop iterates a copy of the list made when
\* the loop began.
call_body_snapshot ==
    /\ Running("call")
    /\ Top.pc = "bcast"
    /\ Top.i > Len(log[CHOOSE q \in 1..Len(log) :
                           log[q].e = "call" /\ log[q].k = Top.k].reg)
    /\ stack' = Append(SetTop(stack, [Top EXCEPT !.pc = "body"]),
                       BodyFrame(Top.k, Top.fn, Top.args))
    /\ log' = Append(log, Event("body", Top.k, 0, Top.fn, Top.args, 0))
    /\ UNCHANGED <<born, Actions, heap, gens, wrappers, exc, retval, nscopes>>

\* The for loop is exhausted: return f(*args, **kwargs).
call_body ==
    /\ Running("call")
    /\ Top.pc = "bcast"
    /\ Top.i > Len(heap[Top.lst])
    /\ stack' = Append(SetTop(stack, [Top EXCEPT !.pc = "body"]),
                       BodyFrame(Top.k, Top.fn, Top.args))
    /\ log' = Append(log, Event("body", Top.k, 0, Top.fn, Top.args, 0))
    /\ UNCHANGED <<born, Actions, heap, gens, wrappers, exc, retval, nscopes>>

\* The wrapper returns what f returned.
call_return ==
    /\ Running("call")
    /\ Top.pc = "body"
    /\ stack' = Pop(stack)
    /\ log' = Append(log, Event("ret", Top.k, 0, Top.fn, Top.args, retval))
    /\ UNCHANGED <<born, Actions, heap, gens, wrappers, exc, retval, nscopes>>

----------------------------------------------------------------------------
(* Function bodies. *)

\* The client's functions return a constant, as enter_pdb_when_called does.
body_return ==
    /\ Running("body")
    /\ Top.fn \in {"f_a", "f_b", "g"}
    /\ retval' = 10
    /\ stack' = Pop(stack)
    /\ UNCHANGED <<born, Actions, heap, gens, wrappers, exc, log, nscopes>>

\* A client function that fails: def bad(*args): return 1/0
bad_body ==
    /\ Running("body")
    /\ Top.fn = "bad"
    /\ exc' = "ZeroDivisionError"
    /\ stack' = Pop(stack)
    /\ UNCHANGED <<born, Actions, heap, gens, wrappers, retval, log, nscopes>>

\* A client function that calls g: def h(*args): return g(*args).  The name
\* g is the wrapper when g has been decorated.
h_body_calls_g ==
    /\ Running("body")
    /\ Top.fn = "h"
    /\ Top.pc = "start"
    /\ IF "g" \in wrappers
       THEN /\ stack' = Append(SetTop(stack, [Top EXCEPT !.pc = "called"]),
                               CallFrame(NextCallId, "g", Top.args, Actions))
            /\ log' = Append(log, CallEvent(NextCallId, 0, "g", Top.args))
       ELSE /\ stack' = Append(SetTop(stack, [Top EXCEPT !.pc = "called"]),
                               BodyFrame(0, "g", Top.args))
            /\ log' = Append(log, Event("body", 0, 0, "g", Top.args, 0))
    /\ UNCHANGED <<born, Actions, heap, gens, wrappers, exc, retval, nscopes>>

\* h returns what g returned.
h_body_returns ==
    /\ Running("body")
    /\ Top.fn = "h"
    /\ Top.pc = "called"
    /\ stack' = Pop(stack)
    /\ UNCHANGED <<born, Actions, heap, gens, wrappers, exc, retval, log, nscopes>>

\* fib(n), line 257, n == 0: return 1
fib_base ==
    /\ Running("body")
    /\ Top.fn = "fib"
    /\ Top.pc = "start"
    /\ Top.args[1] = 0
    /\ retval' = 1
    /\ stack' = Pop(stack)
    /\ UNCHANGED <<born, Actions, heap, gens, wrappers, exc, log, nscopes>>

\* Mutant of fib_recurse: the recursive call does not go through the wrapper.
fib_recurse_unwrapped ==
    /\ Running("body")
    /\ Top.fn = "fib"
    /\ Top.pc = "start"
    /\ Top.args[1] # 0
    /\ stack' = Append(SetTop(stack, [Top EXCEPT !.pc = "called"]),
                       BodyFrame(0, "fib", <<Top.args[1] - 1>>))
    /\ log' = Append(log, Event("body", 0, 0, "fib", <<Top.args[1] - 1>>, 0))
    /\ UNCHANGED <<born, Actions, heap, gens, wrappers, exc, retval, nscopes>>

\* fib(n), line 257, n != 0: fib(n - 1) is called.  The global name fib is
\* the wrapper that add_trigger returned.
fib_recurse ==
    /\ Running("body")
    /\ Top.fn = "fib"
    /\ Top.pc = "start"
    /\ Top.args[1] # 0
    /\ IF "fib" \in wrappers
       THEN /\ stack' = Append(SetTop(stack, [Top EXCEPT !.pc = "called"]),
                               CallFrame(NextCallId, "fib", <<Top.args[1] - 1>>, Actions))
            /\ log' = Append(log, CallEvent(NextCallId, 0, "fib", <<Top.args[1] - 1>>))
       ELSE /\ stack' = Append(SetTop(stack, [Top EXCEPT !.pc = "called"]),
                               BodyFrame(0, "fib", <<Top.args[1] - 1>>))
            /\ log' = Append(log, Event("body", 0, 0, "fib", <<Top.args[1] - 1>>, 0))
    /\ UNCHANGED <<born, Actions, heap, gens, wrappers, exc, retval, nscopes>>

\* fib(n), line 257: return n * fib(n - 1)
fib_multiply ==
    /\ Running("body")
    /\ Top.fn = "fib"
    /\ Top.pc = "called"
    /\ retval' = Top.args[1] * retval
    /\ stack' = Pop(stack)
    /\ UNCHANGED <<born, Actions, heap, gens, wrappers, exc, log, nscopes>>

\* A client function that registers a consumer on itself:
\* def r(*args): trigger_func(print_func_info, r); return 10
\* The name r is the wrapper when r has been decorated.
r_body ==
    /\ Running("body")
    /\ Top.fn = "r"
    /\ Len(gens) < MaxGens + MaxInner
    /\ gens' = trigger_func(Store, "print_func_info",
                            <<IF "r" \in wrappers THEN Wrapper("r") ELSE Raw("r")>>).gens
    /\ heap' = trigger_func(Store, "print_func_info",
                            <<IF "r" \in wrappers THEN Wrapper("r") ELSE Raw("r")>>).heap
    /\ born' = Append(born, ScopeDepth)
    /\ retval' = 10
    /\ stack' = Pop(stack)
    /\ UNCHANGED <<Actions, wrappers, exc, log, nscopes>>

\* An exception leaves the body of a function that was waiting for a call.
propagate_body ==
    /\ Raising("body")
    /\ stack' = Pop(stack)
    /\ UNCHANGED <<born, Actions, heap, gens, wrappers, exc, retval, log, nscopes>>

----------------------------------------------------------------------------
(* Actions (the func_to_wrap of a generator). *)

InAction(a) == Running("gen") /\ gens[Top.c].action = a

\* func_to_wrap returns, the generator loops to its yield, send returns.
ActionReturns ==
    /\ gens' = [gens EXCEPT ![Top.c].st = "suspended"]
    /\ stack' = Yielded(stack)

\* print_func_info(func): print(func)
print_func_info ==
    /\ InAction("print_func_info")
    /\ ActionReturns
    /\ UNCHANGED <<born, Actions, heap, wrappers, exc, retval, log, nscopes>>

\* enter_pdb(result): pdb.set_trace(), then return when the session ends.
enter_pdb ==
    /\ InAction("enter_pdb")
    /\ ActionReturns
    /\ UNCHANGED <<born, Actions, heap, wrappers, exc, retval, log, nscopes>>

\* Mutant of enter_pdb_on_error_call: dump_and_restore keeps a copy of the
\* list and empties the list itself (save_actions = list(ACTIONS);
\* ACTIONS.clear()).
enter_pdb_on_error_call_in_place ==
    /\ InAction("enter_pdb_on_error")
    /\ Top.pc = "start"
    /\ heap' = Append([heap EXCEPT ![Actions] = <<>>], heap[Actions])
    /\ Actions' = Actions
    /\ stack' = Append(SetTop(stack, [Top EXCEPT !.pc = "try", !.save = Len(heap) + 1,
                                                 !.lst = Actions]),
                       BodyFrame(0, Top.fn, Top.args))
    /\ log' = Append(log, Event("body", 0, Top.c, Top.fn, Top.args, Top.k))
    /\ UNCHANGED <<born, gens, wrappers, exc, retval, nscopes>>

\* enter_pdb_on_error(result), lines 205-210: the with statement runs
\* dump_and_restore up to its yield (save_actions = ACTIONS; ACTIONS = []),
\* and the try statement calls f, which is result.function: the function
\* itself, not its wrapper.
enter_pdb_on_error_call ==
    /\ InAction("enter_pdb_on_error")
    /\ Top.pc = "start"
    /\ heap' = Append(heap, <<>>)
    /\ Actions' = Len(heap) + 1
    /\ stack' = Append(SetTop(stack, [Top EXCEPT !.pc = "try", !.save = Actions,
                                                 !.lst = Len(heap) + 1]),
                       BodyFrame(0, Top.fn, Top.args))
    /\ log' = Append(log, Event("body", 0, Top.c, Top.fn, Top.args, Top.k))
    /\ UNCHANGED <<born, gens, wrappers, exc, retval, nscopes>>

\* Mutant of enter_pdb_on_error_except: the except clause is missing.
enter_pdb_on_error_except_missing ==
    /\ Raising("gen")
    /\ Top.pc = "try"
    /\ gens' = [gens EXCEPT ![Top.c].st = "closed"]
    /\ stack' = Pop(stack)
    /\ log' = Append(log, Event("throw", Top.k, Top.c, Top.fn, Top.args, 0))
    /\ UNCHANGED <<born, Actions, heap, wrappers, exc, retval, nscopes>>

\* Lines 211-213: the call of f has raised; the bare except clause catches
\* whatever it is, and pdb.post_mortem() returns when the session ends.
enter_pdb_on_error_except ==
    /\ Raising("gen")
    /\ Top.pc = "try"
    /\ exc' = "none"
    /\ stack' = SetTop(stack, [Top EXCEPT !.pc = "caught"])
    /\ log' = Append(log, Event("pdb", Top.k, Top.c, Top.fn, Top.args, 0))
    /\ UNCHANGED <<born, Actions, heap, gens, wrappers, retval, nscopes>>

\* Mutant of enter_pdb_on_error_exit: line 90 is missing.
enter_pdb_on_error_exit_not_restored ==
    /\ InAction("enter_pdb_on_error")
    /\ Top.pc \in {"try", "caught"}
    /\ ActionReturns
    /\ log' = Append(log, Event("exit", Top.k, Top.c, Top.fn, Top.args, 0))
    /\ UNCHANGED <<born, Actions, heap, wrappers, exc, retval, nscopes>>

\* The block of the with statement ends normally (the call of f returned,
\* its result discarded, or the except clause handled its exception):
\* dump_and_restore runs line 90, ACTIONS = save_actions, and the action
\* returns.  Nothing refers to the list of line 88 any more: it is freed.
enter_pdb_on_error_exit ==
    /\ InAction("enter_pdb_on_error")
    /\ Top.pc \in {"try", "caught"}
    /\ Actions' = Top.save
    /\ heap' = IF Top.lst = Len(heap) THEN SubSeq(heap, 1, Len(heap) - 1) ELSE heap
    /\ ActionReturns
    /\ log' = Append(log, Event("exit", Top.k, Top.c, Top.fn, Top.args, 0))
    /\ UNCHANGED <<born, wrappers, exc, retval, nscopes>>

\* A registration made by an action or by a function body: the generators
\* and lists S come to exist.
RegisteredInside(S) ==
    /\ Len(S.gens) <= MaxGens + MaxInner
    /\ gens' = S.gens
    /\ heap' = S.heap
    /\ born' = born \o [j \in 1..(Len(S.gens) - Len(gens)) |-> ScopeDepth]

\* The generators and lists when the action on top of the stack has
\* returned and its generator is at its yield again.
StoreAfterAction ==
    [gens |-> [gens EXCEPT ![Top.c].st = "suspended"], heap |-> heap]

\* A client action that registers itself on the function that was called:
\* def registrar(result): trigger_func(registrar, result.function)
registrar ==
    /\ InAction("registrar")
    /\ RegisteredInside(trigger_func(StoreAfterAction, "registrar", <<Raw(Top.fn)>>))
    /\ stack' = Yielded(stack)
    /\ UNCHANGED <<Actions, wrappers, exc, retval, log, nscopes>>

\* A client action that registers print_func_info on the function that was
\* called: def register_print(result): trigger_func(print_func_info, result.function)
register_print ==
    /\ InAction("register_print")
    /\ RegisteredInside(trigger_func(StoreAfterAction, "print_func_info", <<Raw(Top.fn)>>))
    /\ stack' = Yielded(stack)
    /\ UNCHANGED <<Actions, wrappers, exc, retval, log, nscopes>>

\* A client action that raises: def raiser(result): raise Exception
raiser ==
    /\ InAction("raiser")
    /\ exc' = "Exception"
    /\ UNCHANGED <<born, Actions, heap, gens, wrappers, stack, retval, log, nscopes>>

\* A client action that calls g: def call_g(result): g(*result.args).  The
\* name g is the wrapper when g has been decorated.
call_g ==
    /\ InAction("call_g")
    /\ Top.pc = "start"
    /\ IF "g" \in wrappers
       THEN /\ stack' = Append(SetTop(stack, [Top EXCEPT !.pc = "called"]),
                               CallFrame(NextCallId, "g", Top.args, Actions))
            /\ log' = Append(log, CallEvent(NextCallId, Top.c, "g", Top.args))
       ELSE /\ stack' = Append(SetTop(stack, [Top EXCEPT !.pc = "called"]),
                               BodyFrame(0, "g", Top.args))
            /\ log' = Append(log, Event("body", 0, 0, "g", Top.args, 0))
    /\ UNCHANGED <<born, Actions, heap, gens, wrappers, exc, retval, nscopes>>

call_g_returns ==
    /\ InAction("call_g")
    /\ Top.pc = "called"
    /\ ActionReturns
    /\ UNCHANGED <<born, Actions, heap, wrappers, exc, retval, log, nscopes>>

----------------------------------------------------------------------------
(* Exceptions. *)

\* Mutant of propagate_gen: the broadcast isolates the failure of a
\* consumer and goes on with the next one.
propagate_gen_isolated ==
    /\ Raising("gen")
    /\ gens' = [gens EXCEPT ![Top.c].st = "closed"]
    /\ exc' = "none"
    /\ stack' = Yielded(stack)
    /\ log' = Append(log, Event("throw", Top.k, Top.c, Top.fn, Top.args, 0))
    /\ UNCHANGED <<born, Actions, heap, wrappers, retval, nscopes>>

\* Mutant of propagate_gen: the generator catches the failure of its action
\* and stays alive at its yield.
propagate_gen_keep_alive ==
    /\ Raising("gen")
    /\ gens' = [gens EXCEPT ![Top.c].st = "suspended"]
    /\ exc' = "none"
    /\ stack' = Yielded(stack)
    /\ log' = Append(log, Event("throw", Top.k, Top.c, Top.fn, Top.args, 0))
    /\ UNCHANGED <<born, Actions, heap, wrappers, retval, nscopes>>

\* An exception leaves func_to_wrap and the generator's frame: the
\* generator is finished, and send raises in the broadcast.  A
\* StopIteration that reaches a generator's frame leaves it as RuntimeError.
\* (An exception raised in the try statement of enter_pdb_on_error is
\* handled there.)
propagate_gen ==
    /\ Raising("gen")
    /\ Top.pc # "try"
    /\ gens' = [gens EXCEPT ![Top.c].st = "closed"]
    /\ exc' = IF exc = "StopIteration" THEN "RuntimeError" ELSE exc
    /\ stack' = Pop(stack)
    /\ log' = Append(log, Event("throw", Top.k, Top.c, Top.fn, Top.args, 0))
    /\ UNCHANGED <<born, Actions, heap, wrappers, retval, nscopes>>

\* An exception leaves _broadcast_funccall and the wrapper: line 103 (122,
\* 133, 150) is not reached.
propagate_call ==
    /\ Raising("call")
    /\ stack' = Pop(stack)
    /\ log' = Append(log, Event("exc", Top.k, 0, Top.fn, Top.args, 0))
    /\ UNCHANGED <<born, Actions, heap, gens, wrappers, exc, retval, nscopes>>

\* The exception has reached top-level code, which handles it.
except_top ==
    /\ exc # "none"
    /\ TopLevelFrame
    /\ exc' = "none"
    /\ UNCHANGED <<born, Actions, heap, gens, wrappers, stack, retval, log, nscopes>>

----------------------------------------------------------------------------
(* dump_and_restore, used by top-level code. *)

\* Mutant of dump_and_restore_enter: line 88 is missing, the live list
\* stays live in the block.
dump_and_restore_enter_not_emptied ==
    /\ AtTopLevel
    /\ nscopes < MaxScopes
    /\ nscopes' = nscopes + 1
    /\ stack' = Append(stack, WithFrame(Actions, Actions))
    /\ log' = <<>>
    /\ UNCHANGED <<born, Actions, heap, gens, wrappers, exc, retval>>

\* Lines 87-88, up to the yield: save_actions = ACTIONS; ACTIONS = [].
dump_and_restore_enter ==
    /\ AtTopLevel
    /\ nscopes < MaxScopes
    /\ nscopes' = nscopes + 1
    /\ heap' = Append(heap, <<>>)
    /\ Actions' = Len(heap) + 1
    /\ stack' = Append(stack, WithFrame(Actions, Len(heap) + 1))
    /\ log' = <<>>
    /\ UNCHANGED <<born, gens, wrappers, exc, retval>>

\* Mutant of dump_and_restore_exit: line 90 is missing.
dump_and_restore_exit_not_restored ==
    /\ AtTopLevel
    /\ stack # <<>>
    /\ stack' = Pop(stack)
    /\ log' = <<>>
    /\ UNCHANGED <<born, Actions, heap, gens, wrappers, exc, retval, nscopes>>

\* Mutant of dump_and_restore_exit: save_actions is one variable shared by
\* all the scopes, so what is restored is what the outermost scope saved.
dump_and_restore_exit_shared_save ==
    /\ AtTopLevel
    /\ stack # <<>>
    /\ Actions' = stack[1].save
    /\ stack' = Pop(stack)
    /\ log' = <<>>
    /\ UNCHANGED <<born, heap, gens, wrappers, exc, retval, nscopes>>

\* The block ends normally: the generator is resumed after its yield and
\* runs line 90, ACTIONS = save_actions.
dump_and_restore_exit ==
    /\ AtTopLevel
    /\ stack # <<>>
    /\ Actions' = Top.save
    /\ stack' = Pop(stack)
    /\ log' = <<>>
    /\ UNCHANGED <<born, heap, gens, wrappers, exc, retval, nscopes>>

\* The block raises: contextmanager throws the exception into the generator
\* at its yield (line 89).  The yield is in no try statement, so the
\* exception leaves the generator and line 90 is not run.
dump_and_restore_raise ==
    /\ AtTopLevel
    /\ stack # <<>>
    /\ exc' = "Exception"
    /\ stack' = Pop(stack)
    /\ log' = <<>>
    /\ UNCHANGED <<born, Actions, heap, gens, wrappers, retval, nscopes>>

----------------------------------------------------------------------------
(* What top-level code chooses from. *)

\* The object the name of function f is bound to: the wrapper once f has
\* been decorated.
Obj(f) == IF f \in wrappers THEN Wrapper(f) ELSE Raw(f)

\* The *triggers a direct registration passes: one function, or two.
TriggerMenu == {<<Obj("f_a")>>, <<Obj("f_a"), Obj("g")>>}

\* The argument tuples the calls of the scope specifications pass.
ScopeArgs == {<<>>, <<0>>}

\* The functions top-level code decorates with an action.
Decorated == {"f_a", "g"}

\* The conditions lists a conditional registration passes: every list of
\* at most two of the predicates.
CondMenu ==
    {<<>>} \cup {<<p>> : p \in Preds} \cup {<<p, r>> : p \in Preds, r \in Preds}

\* The actions lists the list decorator is given.
ActionLists ==
    { <<"print_func_info">>,
      <<"print_func_info", "enter_pdb">>,
      <<"enter_pdb", "print_func_info">> }

----------------------------------------------------------------------------
(* Reading the log. *)

Ev(e) == {q \in 1..Len(log) : log[q].e = e}

CallOf(k) == log[CHOOSE q \in Ev("call") : log[q].k = k]

FiresOf(k, c) == {q \in Ev("fire") : log[q].k = k /\ log[q].c = c}

OnStack(k) == \E j \in 1..Len(stack) : stack[j].t = "call" /\ stack[j].k = k

\* The generators whose action was invoked for call k, in that order.
RECURSIVE FiredFrom(_, _)
FiredFrom(k, q) ==
    IF q > Len(log) THEN <<>>
    ELSE IF log[q].e = "fire" /\ log[q].k = k
         THEN <<log[q].c>> \o FiredFrom(k, q + 1)
         ELSE FiredFrom(k, q + 1)

\* The subsequence of the generators of reg that are to fire on a call of
\* fn with args: a watched name and all conditions true.
RECURSIVE Due(_, _, _)
Due(reg, fn, args) ==
    IF reg = <<>> THEN <<>>
    ELSE LET c == Head(reg)
             due == /\ \E j \in 1..Len(gens[c].trigger) :
                          DefName(gens[c].trigger[j].fn) = DefName(fn)
                    /\ \A j \in 1..Len(gens[c].conditions) :
                          condition(gens[c].conditions[j], [args |-> args])
         IN (IF due THEN <<c>> ELSE <<>>) \o Due(Tail(reg), fn, args)

\* Generator c watches a function with the name of fn.
WatchesName(c, fn) ==
    \E j \in 1..Len(gens[c].trigger) : DefName(gens[c].trigger[j].fn) = DefName(fn)

----------------------------------------------------------------------------
(* Spec: top-level code decorates functions, registers unconditional       *)
(* consumers whose actions return or raise, and calls.                     *)

Next ==
    \/ \E f \in FuncIds : add_trigger(f)
    \/ \E a \in {"print_func_info", "raiser"}, f \in Decorated :
          add_trigger_with_action(a, f)
    \/ \E a \in {"print_func_info", "raiser"}, t \in TriggerMenu :
          call_trigger_func(a, t)
    \/ \E f \in FuncIds, args \in ArgTuples : call(f, args)
    \/ send
    \/ send_closed
    \/ call_body
    \/ call_return
    \/ body_return
    \/ print_func_info
    \/ raiser
    \/ propagate_gen
    \/ propagate_call
    \/ except_top

Spec == Init /\ [][Next]_vars

\* C1: when the body of an instrumented function starts for a call, every
\* unconditional consumer that was registered on a function of that name
\* when the call was made has been invoked exactly once for that call,
\* before the body, with a record carrying the function's name and the
\* call's arguments.
C1_FiredOnceBeforeBody ==
    \A p \in Ev("body") :
        log[p].k > 0 =>
            LET cl == CallOf(log[p].k) IN
            \A j \in 1..Len(cl.reg) :
                (gens[cl.reg[j]].co = "action_on_triggers" /\ WatchesName(cl.reg[j], cl.fn))
                => /\ Cardinality(FiresOf(cl.k, cl.reg[j])) = 1
                   /\ \A q \in FiresOf(cl.k, cl.reg[j]) :
                         /\ q < p
                         /\ DefName(log[q].fn) = DefName(cl.fn)
                         /\ log[q].args = cl.args

C1_Witness ==
    \E p \in Ev("body") :
        /\ log[p].k > 0
        /\ log[p].args = <<1>>
        /\ \E j \in 1..Len(CallOf(log[p].k).reg) :
              WatchesName(CallOf(log[p].k).reg[j], log[p].fn)

\* C2: once the action of a consumer has raised in the broadcast of a call,
\* no consumer receives that call's record afterwards, the body of the
\* function is not executed for that call, and the call ends by raising to
\* its caller: the exception is propagating as long as the call is on the
\* stack, and the call never returns.
C2_ActionFailureAborts ==
    \A p \in Ev("throw") :
        LET k == log[p].k IN
        /\ \A q \in Ev("recv") : log[q].k = k => q < p
        /\ \A q \in Ev("body") : log[q].k # k
        /\ \A q \in Ev("ret") : log[q].k # k
        /\ IF OnStack(k) THEN exc # "none"
           ELSE \E q \in Ev("exc") : log[q].k = k /\ q > p

\* The first of two registered consumers has failed and the call is over.
C2_Witness ==
    \E p \in Ev("throw") :
        /\ ~OnStack(log[p].k)
        /\ Len(CallOf(log[p].k).reg) = 2
        /\ CallOf(log[p].k).reg[1] = log[p].c
        /\ WatchesName(CallOf(log[p].k).reg[2], log[p].fn)

\* C7: a generator that an exception has finished stays finished and its
\* action is never invoked again; a generator that stops running is
\* finished exactly when an exception is leaving it and is otherwise
\* suspended; a suspended generator that is sent a record receives it.
C7_TerminatedForGood ==
    [][\A c \in 1..Len(gens) :
          /\ gens[c].st = "closed" =>
                /\ gens'[c].st = "closed"
                /\ \A q \in 1..Len(log') :
                      (log'[q].e = "fire" /\ log'[q].c = c)
                      => (q <= Len(log) /\ log[q] = log'[q])
          /\ (gens[c].st = "running" /\ gens'[c].st # "running") =>
                gens'[c].st = (IF exc # "none" THEN "closed" ELSE "suspended")
          /\ (Broadcasting /\ Target = c /\ gens[c].st = "suspended") =>
                /\ Len(log') = Len(log) + (IF Fires(gens[c], func(Raw(Top.fn), Top.args)) THEN 2 ELSE 1)
                /\ log'[Len(log) + 1].e = "recv"
                /\ log'[Len(log) + 1].c = c
      ]_vars

\* A broadcast has reached a finished generator that watches the function
\* being called: the send has raised and the action has not been invoked.
C7_Witness ==
    /\ exc = "StopIteration"
    /\ stack # <<>>
    /\ Top.t = "call"
    /\ gens[Target].st = "closed"
    /\ WatchesName(Target, Top.fn)
    /\ FiresOf(Top.k, Target) = {}

\* C10: an unconditional consumer that receives a record invokes its action
\* exactly when one of its triggers has the name of the called function,
\* whichever function object carries that name.
C10_MatchByName ==
    \A q \in Ev("recv") :
        gens[log[q].c].co = "action_on_triggers" =>
            (FiresOf(log[q].k, log[q].c) # {} <=> WatchesName(log[q].c, log[q].fn))

\* A consumer registered on f_a alone has fired on a call of f_b, and a
\* consumer registered on g alone has received that record without firing.
C10_Witness ==
    \E q \in Ev("fire") :
        /\ log[q].fn = "f_b"
        /\ gens[log[q].c].trigger = <<Raw("f_a")>>
        /\ \E r \in Ev("recv") :
              /\ log[r].k = log[q].k
              /\ Len(gens[log[r].c].trigger) = 1
              /\ gens[log[r].c].trigger[1].fn = "g"
              /\ FiresOf(log[r].k, log[r].c) = {}

----------------------------------------------------------------------------
(* SpecCond: top-level code registers conditional consumers, singly and    *)
(* through the list decorator, and calls.                                  *)

NextCond ==
    \/ \E f \in FuncIds : add_trigger(f)
    \/ \E conds \in CondMenu :
          add_conditional_trigger_with_actions(conds, "print_func_info", "f_a")
    \/ \E conds \in {<<>>, <<"has_args", "inspect_even">>} :
          call_conditional_trigger_func("print_func_info", conds, <<Obj("f_b"), Obj("g")>>)
    \/ \E conds \in {<<"inspect_even">>, <<"has_args", "inspect_even">>}, actions \in ActionLists :
          add_conditional_trigger_with_actions_list(conds, actions, "g")
    \/ \E f \in FuncIds, args \in ArgTuples : call(f, args)
    \/ send
    \/ call_body
    \/ call_return
    \/ body_return
    \/ print_func_info
    \/ enter_pdb

SpecCond == Init /\ [][NextCond]_vars

\* C5: a conditional consumer that receives a record invokes its action if
\* and only if one of its triggers has the name of the called function and
\* every predicate of its conditions list is true of the record.
C5_FiresIffNameAndAllConditions ==
    \A q \in Ev("recv") :
        LET c == log[q].c IN
        gens[c].co = "conditional_action_on_triggers" =>
            (FiresOf(log[q].k, c) # {}
             <=> /\ WatchesName(c, log[q].fn)
                 /\ \A j \in 1..Len(gens[c].conditions) :
                       IF gens[c].conditions[j] = "inspect_even"
                       THEN log[q].args # <<>> /\ log[q].args[1] \in {0, 2, 4}
                       ELSE log[q].args # <<>>)

\* One record has reached two consumers with two conditions each that watch
\* the called name: one with both conditions true, which fired, and one
\* with the first true and the second false, which did not.
C5_Witness ==
    \E q \in Ev("recv"), r \in Ev("recv") :
        /\ log[q].k = log[r].k
        /\ log[q].args = <<1>>
        /\ gens[log[q].c].conditions = <<"has_args", "has_args">>
        /\ FiresOf(log[q].k, log[q].c) # {}
        /\ gens[log[r].c].conditions = <<"has_args", "inspect_even">>
        /\ WatchesName(log[r].c, log[r].fn)
        /\ FiresOf(log[r].k, log[r].c) = {}

\* C6, for a call: when the body starts, the actions invoked for the call
\* are those of the registered consumers that watch the name and whose
\* conditions hold, each once, in registry order, which is the order of
\* registration.
C6_AllFireInOrder ==
    \A p \in Ev("body") :
        log[p].k > 0 =>
            LET cl == CallOf(log[p].k) IN
            /\ FiredFrom(cl.k, 1) = Due(cl.reg, cl.fn, cl.args)
            /\ \A j \in 1..Len(cl.reg) : cl.reg[j] = j

\* C6, for the list decorator: it registers one conditional consumer per
\* action, in list order, at the end of the live list, all with the given
\* conditions and the decorated function as trigger.
C6_ListRegistersEach ==
    \A conds \in CondMenu, actions \in ActionLists, f \in FuncIds :
        (Len(gens') # Len(gens)
         /\ add_conditional_trigger_with_actions_list(conds, actions, f)) =>
            /\ Len(gens') = Len(gens) + Len(actions)
            /\ \A j \in 1..Len(actions) :
                  /\ gens'[Len(gens) + j].action = actions[j]
                  /\ gens'[Len(gens) + j].conditions = conds
                  /\ gens'[Len(gens) + j].trigger = <<Raw(f)>>
                  /\ gens'[Len(gens) + j].co = "conditional_action_on_triggers"
            /\ heap'[Actions] = heap[Actions] \o [j \in 1..Len(actions) |-> Len(gens) + j]

C6_RegistrationOrder == []C6_AllFireInOrder /\ [][C6_ListRegistersEach]_vars

\* The list decorator was given [print_func_info, enter_pdb] and one call
\* satisfying the conditions has invoked exactly these two, in list order.
C6_Witness ==
    \E p \in Ev("body") :
        /\ Len(gens) = 2
        /\ gens[1].action = "print_func_info"
        /\ gens[2].action = "enter_pdb"
        /\ gens[1].trigger = <<Raw("g")>>
        /\ gens[2].trigger = <<Raw("g")>>
        /\ gens[1].conditions = <<"has_args", "inspect_even">>
        /\ gens[2].conditions = <<"has_args", "inspect_even">>
        /\ FiredFrom(log[p].k, 1) = <<1, 2>>

----------------------------------------------------------------------------
(* SpecScope: top-level code registers consumers and calls, outside and    *)
(* inside a with dump_and_restore() block, which ends normally or raises.  *)

NextScope ==
    \/ \E f \in Decorated : add_trigger(f)
    \/ \E f \in Decorated : add_trigger_with_action("print_func_info", f)
    \/ call_trigger_func("print_func_info", <<Obj("f_a")>>)
    \/ \E f \in Decorated, args \in ScopeArgs : call(f, args)
    \/ dump_and_restore_enter
    \/ dump_and_restore_exit
    \/ dump_and_restore_raise
    \/ send
    \/ call_body
    \/ call_return
    \/ body_return
    \/ print_func_info
    \/ except_top

SpecScope == Init /\ [][NextScope]_vars

\* The with blocks on the stack from position j on.
ScopesFrom(j) == {i \in j..Len(stack) : stack[i].t = "with"}

\* A with block is left.
ScopeExit == stack # <<>> /\ Top.t = "with" /\ Len(stack') < Len(stack)

\* C3: whenever a dump_and_restore block is left, normally or by an
\* exception, the live registry is again the sequence of consumers that
\* was live when the block was entered.
C3_RestoredOnEveryExit ==
    [][ScopeExit => heap'[Actions'] = heap[Top.save]]_vars

\* C4, inside the block: no call made inside a dump_and_restore block
\* invokes a consumer of the list the block has saved.
C4_SuppressedInside ==
    \A j \in ScopesFrom(1) :
        \A q \in Ev("call") :
            (\E i \in ScopesFrom(j) : log[q].lst = stack[i].lst) =>
                \A r \in Ev("fire") :
                    log[r].k = log[q].k =>
                        \A m \in 1..Len(heap[stack[j].save]) :
                            heap[stack[j].save][m] # log[r].c

\* C4, for a call: when the body starts, every due consumer of the list
\* that was live at the call has fired, in order.
C4_LiveOnesFire ==
    \A p \in Ev("body") :
        log[p].k > 0 =>
            FiredFrom(log[p].k, 1)
            = Due(CallOf(log[p].k).reg, log[p].fn, log[p].args)

\* C4, at the end of the block: a saved list is not changed while it is
\* saved, and a normal exit makes it the live list again.
C4_RestoredOnNormalExit ==
    /\ \A j \in ScopesFrom(1) :
          (Len(stack') >= j /\ stack'[j] = stack[j]) =>
              heap'[stack[j].save] = heap[stack[j].save]
    /\ (ScopeExit /\ exc' = "none") =>
          (Actions' = Top.save /\ heap'[Actions'] = heap[Top.save])

C4_ScopedSuppression ==
    /\ [](C4_SuppressedInside /\ C4_LiveOnesFire)
    /\ [][C4_RestoredOnNormalExit]_vars

\* Inside a block that has saved a consumer watching f, a call of a
\* function named f has run its body and returned with no action invoked.
C4_Witness ==
    /\ stack # <<>>
    /\ Top.t = "with"
    /\ \E q \in Ev("ret") :
          /\ CallOf(log[q].k).lst = Top.lst
          /\ Ev("fire") = {}
          /\ \E m \in 1..Len(heap[Top.save]) :
                /\ WatchesName(heap[Top.save][m], log[q].fn)
                /\ gens[heap[Top.save][m]].st = "suspended"

----------------------------------------------------------------------------
(* SpecNormal: as SpecScope, with actions that may raise, and with blocks  *)
(* that all end normally.                                                  *)

NextNormal ==
    \/ \E f \in Decorated : add_trigger(f)
    \/ \E a \in {"print_func_info", "raiser"}, f \in Decorated :
          add_trigger_with_action(a, f)
    \/ call_trigger_func("print_func_info", <<Obj("f_a")>>)
    \/ \E f \in Decorated, args \in ScopeArgs : call(f, args)
    \/ dump_and_restore_enter
    \/ dump_and_restore_exit
    \/ send
    \/ send_closed
    \/ call_body
    \/ call_return
    \/ body_return
    \/ print_func_info
    \/ raiser
    \/ propagate_gen
    \/ propagate_call
    \/ except_top

SpecNormal == Init /\ [][NextNormal]_vars

\* The generators of gs (ascending) that were registered with d blocks open.
RECURSIVE BornAt(_, _)
BornAt(d, c) ==
    IF c > Len(gens) THEN <<>>
    ELSE (IF born[c] = d THEN <<c>> ELSE <<>>) \o BornAt(d, c + 1)

\* C9 as stated: whenever no dump_and_restore block is open, every consumer
\* ever registered is in the live registry, in registration order.
C9_RegistrationPermanent ==
    ScopeDepth = 0 => heap[Actions] = [c \in 1..Len(gens) |-> c]

\* C9 amended: whenever no dump_and_restore block is open, the live
\* registry holds exactly the consumers that were registered while no
\* block was open, in registration order.
C9_PermanentOutsideScopes ==
    ScopeDepth = 0 => heap[Actions] = BornAt(0, 1)

\* A block has been entered and left, a consumer registered before it and
\* one whose action has raised are live, and one registered inside is not.
C9_Witness ==
    /\ ScopeDepth = 0
    /\ nscopes = 1
    /\ \E c \in 1..Len(gens) : born[c] = 0 /\ gens[c].st = "closed"
    /\ \E c \in 1..Len(gens) : born[c] = 1

\* The list that top-level code has made live: the list of the innermost
\* open block, and with no block open the list of line 64.
LiveByNesting(s) ==
    LET w == SelectSeq(s, LAMBDA f : f.t = "with")
    IN IF w = <<>> THEN 1 ELSE w[Len(w)].lst

\* C14, in every state: the open blocks form a stack; the live list is the
\* list of the innermost one, and what each block has saved is the list
\* that was live around it.
C14_StackOfScopes ==
    /\ Actions = LiveByNesting(stack)
    /\ \A j \in 1..Len(stack) :
          stack[j].t = "with" => stack[j].save = LiveByNesting(SubSeq(stack, 1, j - 1))

\* C14, in every step: entering a block makes a new, empty list live;
\* leaving it makes the list live that was live immediately before it was
\* entered, with the consumers it then had and those registered on it since;
\* with all blocks left, that is the list of line 64.
C14_EnterAndExit ==
    /\ (Len(stack') > Len(stack) /\ stack'[Len(stack')].t = "with") =>
          /\ heap'[Actions'] = <<>>
          /\ Actions' > Len(heap)
    /\ ScopeExit =>
          /\ Actions' = LiveByNesting(Pop(stack))
          /\ heap'[Actions'] = heap[LiveByNesting(Pop(stack))]
          /\ Len(stack') = 0 => Actions' = 1
    /\ \A l \in 1..Len(heap) :
          l # Actions => heap'[l] = heap[l]

C14_NestedScopes == []C14_StackOfScopes /\ [][C14_EnterAndExit]_vars

\* Two nested blocks have been entered and left: a consumer was registered
\* with both open, another before, and the second alone is live.
C14_Witness ==
    /\ stack = <<>>
    /\ nscopes = 2
    /\ Len(gens) = 2
    /\ born = <<2, 0>>
    /\ heap[Actions] = <<2>>

----------------------------------------------------------------------------
(* SpecNested: some actions call the function g, instrumented or not.      *)

NextNested ==
    \/ \E f \in FuncIds : add_trigger(f)
    \/ \E a \in {"print_func_info", "call_g"}, f \in Decorated :
          add_trigger_with_action(a, f)
    \/ \E a \in {"print_func_info", "call_g"}, t \in TriggerMenu :
          call_trigger_func(a, t)
    \/ \E f \in FuncIds, args \in ArgTuples : call(f, args)
    \/ send
    \/ send_running
    \/ send_closed
    \/ call_body
    \/ call_return
    \/ body_return
    \/ print_func_info
    \/ call_g
    \/ call_g_returns
    \/ propagate_gen
    \/ propagate_call
    \/ except_top

SpecNested == Init /\ [][NextNested]_vars

\* C8: once a call that an action made of an instrumented function is over,
\* every consumer of the registry, the one whose action made the call
\* included, has received its record, the body has run and the call has
\* returned to the action.
C8_NestedBroadcastReachesAll ==
    \A q \in Ev("call") :
        (log[q].c > 0 /\ ~OnStack(log[q].k)) =>
            /\ \A m \in 1..Len(log[q].reg) :
                  \E r \in Ev("recv") : log[r].k = log[q].k /\ log[r].c = log[q].reg[m]
            /\ \E r \in Ev("body") : log[r].k = log[q].k
            /\ \E r \in Ev("ret") : log[r].k = log[q].k

----------------------------------------------------------------------------
(* SpecWraps: functions are instrumented by each of the four decorators,   *)
(* and consumers are registered on them before and after the decoration.   *)

NextWraps ==
    \/ add_trigger("f_a")
    \/ add_trigger_with_action("print_func_info", "f_b")
    \/ add_conditional_trigger_with_actions(<<"has_args">>, "print_func_info", "g")
    \/ add_conditional_trigger_with_actions_list(<<"has_args">>, <<"print_func_info">>, "g")
    \/ \E f \in FuncIds : call_trigger_func("print_func_info", <<Obj(f)>>)
    \/ call_conditional_trigger_func("print_func_info", <<"has_args">>, <<Obj("g")>>)
    \/ \E f \in FuncIds, args \in ScopeArgs : call(f, args)
    \/ send
    \/ call_body
    \/ call_return
    \/ body_return
    \/ print_func_info

SpecWraps == Init /\ [][NextWraps]_vars

\* Consumers c and d differ at most in that a trigger of one is the wrapper
\* of a function and that trigger of the other the function itself.
SameUpToWrapping(c, d) ==
    /\ gens[c].co = gens[d].co
    /\ gens[c].conditions = gens[d].conditions
    /\ Len(gens[c].trigger) = Len(gens[d].trigger)
    /\ \A j \in 1..Len(gens[c].trigger) : gens[c].trigger[j].fn = gens[d].trigger[j].fn

\* C11: the wrapper of every instrumented function has the name of the
\* function, and two consumers that differ only in being registered on the
\* wrapper or on the function itself, and receive the record of the same
\* call, both invoke their action or both do not.
C11_WrapperMatchesLikeOriginal ==
    /\ \A f \in wrappers : Name(Wrapper(f)) = Name(Raw(f))
    /\ \A q \in Ev("recv"), r \in Ev("recv") :
          (log[q].k = log[r].k /\ SameUpToWrapping(log[q].c, log[r].c)) =>
              (FiresOf(log[q].k, log[q].c) # {} <=> FiresOf(log[r].k, log[r].c) # {})

\* One call of g, instrumented by a conditional decorator, has invoked the
\* consumer the decorator registered on the function and a consumer
\* registered afterwards on the wrapper; so has one call of f_a.
C11_Witness ==
    \E q \in Ev("fire"), r \in Ev("fire") :
        /\ log[q].k = log[r].k
        /\ log[q].fn \in {"g", "f_a"}
        /\ gens[log[q].c].trigger = <<Raw(log[q].fn)>>
        /\ gens[log[r].c].trigger = <<Wrapper(log[q].fn)>>
        /\ SameUpToWrapping(log[q].c, log[r].c)

----------------------------------------------------------------------------
(* SpecPdb: enter_pdb_on_error is registered on functions that return,     *)
(* that fail, and that call the instrumented function g.                   *)

\* The functions enter_pdb_on_error is registered on.
PdbFuncs == {"f_a", "bad", "h"}

NextPdb ==
    \/ \E f \in {"g", "h"} : add_trigger(f)
    \/ \E f \in PdbFuncs : add_trigger_with_action("enter_pdb_on_error", f)
    \/ add_trigger_with_action("print_func_info", "g")
    \/ call_trigger_func("enter_pdb_on_error", <<Obj("h")>>)
    \/ call_trigger_func("print_func_info", <<Obj("g")>>)
    \/ \E f \in PdbFuncs \cup {"g"}, args \in ScopeArgs : call(f, args)
    \/ send
    \/ call_body
    \/ call_return
    \/ body_return
    \/ bad_body
    \/ h_body_calls_g
    \/ h_body_returns
    \/ print_func_info
    \/ enter_pdb_on_error_call
    \/ enter_pdb_on_error_except
    \/ enter_pdb_on_error_exit
    \/ propagate_call
    \/ except_top

SpecPdb == Init /\ [][NextPdb]_vars

\* The enter_pdb_on_error consumers of the registry of call cl that watch the
\* called function.
PdbConsumers(cl) ==
    {cl.reg[j] : j \in {i \in 1..Len(cl.reg) :
                          /\ gens[cl.reg[i]].action = "enter_pdb_on_error"
                          /\ WatchesName(cl.reg[i], cl.fn)}}

\* The executions of the body of the function of call k that consumer c made.
InnerBodies(k, c) ==
    {q \in Ev("body") : log[q].k = 0 /\ log[q].v = k /\ log[q].c = c}

\* C12, at the start of the real execution of the body for a call: every
\* enter_pdb_on_error consumer watching the function has executed the body
\* once before, with the call's arguments, and has left its scope; between
\* the two no consumer of the registry of the call has been sent anything;
\* so the body is executed once more than there are such consumers, twice
\* when there is one.
C12_TwiceAndSuppressed ==
    \A p \in Ev("body") :
        log[p].k > 0 =>
            LET cl == CallOf(log[p].k) IN
            /\ \A c \in PdbConsumers(cl) :
                  /\ Cardinality(InnerBodies(cl.k, c)) = 1
                  /\ \A q \in InnerBodies(cl.k, c) :
                        /\ q < p
                        /\ log[q].fn = cl.fn
                        /\ log[q].args = cl.args
                        /\ \E r \in Ev("exit") :
                              /\ log[r].k = cl.k /\ log[r].c = c
                              /\ q < r /\ r < p
                              /\ \A m \in (q + 1)..(r - 1) :
                                    log[m].e \in {"recv", "fire"} =>
                                        \A j \in 1..Len(cl.reg) : cl.reg[j] # log[m].c
            /\ Cardinality({q \in Ev("body") :
                               \/ log[q].k = cl.k
                               \/ log[q].k = 0 /\ log[q].v = cl.k /\ log[q].fn = cl.fn})
               = 1 + Cardinality(PdbConsumers(cl))

\* C12, the registry: when the body starts for a call, the live list is the
\* list that was live when the call was made, with the same consumers.
C12_RestoredBeforeBody ==
    (stack # <<>> /\ Top.t = "body" /\ Top.k > 0) =>
        /\ Actions = CallOf(Top.k).lst
        /\ heap[Actions] = CallOf(Top.k).reg

\* C12, failure of the first execution: it does not finish the consumer and
\* is not propagating in the broadcast; the real execution follows.
C12_CaughtInside ==
    \A q \in Ev("body") :
        (log[q].k = 0 /\ log[q].c > 0) =>
            /\ \A r \in Ev("throw") : ~(log[r].k = log[q].v /\ log[r].c = log[q].c)
            /\ gens[log[q].c].st # "closed"
            /\ \A r \in Ev("exc") :
                  log[r].k = log[q].v =>
                      \E b \in Ev("body") : log[b].k = log[q].v /\ q < b /\ b < r

C12_PdbOnError == C12_TwiceAndSuppressed /\ C12_RestoredBeforeBody /\ C12_CaughtInside

\* The real execution of h is starting; before it, the one
\* enter_pdb_on_error consumer on h has executed h, which called the
\* instrumented g while a consumer watching g was registered and suspended,
\* and that call found the registry empty.
C12_Witness ==
    /\ stack # <<>>
    /\ Top.t = "body"
    /\ Top.k = 1
    /\ Top.fn = "h"
    /\ Cardinality(PdbConsumers(CallOf(1))) = 1
    /\ \E j \in 1..Len(CallOf(1).reg) :
          /\ WatchesName(CallOf(1).reg[j], "g")
          /\ gens[CallOf(1).reg[j]].action = "print_func_info"
    /\ \E q \in Ev("call") : log[q].fn = "g" /\ log[q].reg = <<>> /\ log[q].lst # CallOf(1).lst
    /\ \E q \in Ev("ret") : log[q].fn = "g"

\* The first execution of bad has raised inside the action, and the real
\* execution has started and raised to the caller.
C12_WitnessRaise ==
    \E q \in Ev("pdb"), r \in Ev("exc") : log[q].fn = "bad" /\ log[r].k = log[q].k

----------------------------------------------------------------------------
(* SpecFib: the recursive function fib is instrumented, consumers are      *)
(* registered on it, and it is called.                                     *)

NextFib ==
    \/ add_trigger("fib")
    \/ add_trigger_with_action("print_func_info", "fib")
    \/ call_trigger_func("print_func_info", <<Obj("fib")>>)
    \/ call_conditional_trigger_func("print_func_info", <<"inspect_even">>, <<Obj("fib")>>)
    \/ \E n \in 0..MaxN : call("fib", <<n>>)
    \/ send
    \/ call_body
    \/ call_return
    \/ fib_base
    \/ fib_recurse
    \/ fib_multiply
    \/ print_func_info

SpecFib == Init /\ [][NextFib]_vars

RECURSIVE Factorial(_)
Factorial(n) == IF n = 0 THEN 1 ELSE n * Factorial(n - 1)

\* C13: every call of fib(m) that has returned has returned m factorial;
\* and when the call fib(n) that top-level code made has returned, every
\* consumer registered on fib with no conditions has had its action invoked
\* exactly n + 1 times, once for each of the arguments n, n-1, ..., 0.
C13_FibCountsAndValue ==
    \A p \in Ev("ret") :
        /\ log[p].v = Factorial(log[p].args[1])
        /\ log[p].k = 1 =>
              \A c \in 1..Len(gens) :
                  gens[c].co = "action_on_triggers" =>
                      /\ Cardinality({q \in Ev("fire") : log[q].c = c}) = log[p].args[1] + 1
                      /\ \A m \in 0..log[p].args[1] :
                            Cardinality({q \in Ev("fire") :
                                            log[q].c = c /\ log[q].args = <<m>>}) = 1

\* fib(5), with two counting consumers registered, has returned 120.
C13_Witness ==
    \E p \in Ev("ret") :
        /\ log[p].k = 1
        /\ log[p].args = <<5>>
        /\ log[p].v = 120
        /\ Len(gens) = 2
        /\ gens[1].co = "action_on_triggers"
        /\ Cardinality({q \in Ev("fire") : log[q].c = 1}) = 6

----------------------------------------------------------------------------
(* SpecPred: consumers are registered with an empty trigger list, and      *)
(* conditional consumers with predicates that may raise.                   *)

\* The conditions lists of SpecPred.
PredMenu == {<<"inspect_even">>, <<"first_even">>, <<"has_args", "first_even">>}

NextPred ==
    \/ \E f \in Decorated : add_trigger(f)
    \/ add_trigger_with_action("print_func_info", "g")
    \/ call_trigger_func("print_func_info", <<>>)
    \/ \E conds \in PredMenu : call_conditional_trigger_func("print_func_info", conds, <<>>)
    \/ \E conds \in PredMenu :
          add_conditional_trigger_with_actions(conds, "print_func_info", "f_a")
    \/ \E f \in Decorated, args \in ScopeArgs : call(f, args)
    \/ send
    \/ send_condition_raises
    \/ send_closed
    \/ call_body
    \/ call_return
    \/ body_return
    \/ print_func_info
    \/ propagate_call
    \/ except_top

SpecPred == Init /\ [][NextPred]_vars

\* The broadcast on top of the stack has just failed at its target.
FailedAtTarget ==
    /\ exc # "none"
    /\ stack # <<>>
    /\ Top.t = "call"
    /\ Top.pc = "bcast"
    /\ Top.i <= Len(heap[Top.lst])

RaisesOn(c, args) ==
    \E j \in 1..Len(gens[c].conditions) :
        ConditionRaises(gens[c].conditions[j], [args |-> args])

----------------------------------------------------------------------------
(* C16: finished consumers, in the behaviours of Spec. *)

\* C16, the registry: a list never loses a consumer, finished or not.
C16_StaysRegistered ==
    \A l \in 1..Len(heap) :
        /\ Len(heap'[l]) >= Len(heap[l])
        /\ SubSeq(heap'[l], 1, Len(heap[l])) = heap[l]

\* C16, the send: a broadcast that reaches a finished consumer raises
\* StopIteration there, and nothing else happens.
C16_SendToFinishedRaises ==
    (Broadcasting /\ gens[Target].st = "closed") =>
        /\ exc' = "StopIteration"
        /\ stack' = stack
        /\ log' = log
        /\ gens' = gens

\* C16, the call: a broadcast that has failed at a consumer is left at once,
\* together with the wrapper.
C16_FailedCallIsLeft ==
    FailedAtTarget =>
        /\ stack' = Pop(stack)
        /\ exc' = exc
        /\ \A q \in 1..Len(log') : log'[q].e \in {"body", "ret"} => log'[q].k # Top.k

\* C16, in every state: when a broadcast has failed at a finished consumer,
\* no consumer after it in the list has received the record of the call and
\* the body has not been executed for the call.
C16_RestNotReached ==
    (FailedAtTarget /\ exc = "StopIteration") =>
        /\ gens[Target].st = "closed"
        /\ \A m \in (Top.i + 1)..Len(heap[Top.lst]) :
              \A q \in Ev("recv") : ~(log[q].k = Top.k /\ log[q].c = heap[Top.lst][m])
        /\ \A q \in Ev("body") : log[q].k # Top.k

C16_FinishedConsumerBlocks ==
    /\ []C16_RestNotReached
    /\ [][C16_StaysRegistered /\ C16_SendToFinishedRaises /\ C16_FailedCallIsLeft]_vars

\* A call of a function that the finished consumer does not watch has
\* failed at it, with a live consumer watching that function after it.
C16_Witness ==
    /\ FailedAtTarget
    /\ exc = "StopIteration"
    /\ ~WatchesName(Target, Top.fn)
    /\ Top.i < Len(heap[Top.lst])
    /\ WatchesName(heap[Top.lst][Top.i + 1], Top.fn)
    /\ gens[heap[Top.lst][Top.i + 1]].st = "suspended"

----------------------------------------------------------------------------
(* SpecReg: some actions register a consumer on the function that was      *)
(* called, while the broadcast of the call is in progress.                 *)

NextReg ==
    \/ \E f \in Decorated : add_trigger(f)
    \/ \E a \in {"registrar", "register_print", "print_func_info"} :
          add_trigger_with_action(a, "f_a")
    \/ \E a \in {"registrar", "register_print"} : call_trigger_func(a, <<Obj("g")>>)
    \/ \E f \in Decorated, args \in ScopeArgs : call(f, args)
    \/ send
    \/ call_body
    \/ call_return
    \/ body_return
    \/ print_func_info
    \/ registrar
    \/ register_print

SpecReg == Init /\ [][NextReg]_vars

\* A consumer with action a has been invoked for call k.
FiredWith(k, a) == \E q \in Ev("fire") : log[q].k = k /\ gens[log[q].c].action = a

\* C17, the list: when the body starts for a call, every consumer that is in
\* the list of the broadcast, those appended during the broadcast included,
\* has received the record of the call.
C17_AppendedReceive ==
    (stack # <<>> /\ Top.t = "body" /\ Top.k > 0) =>
        \A m \in 1..Len(heap[CallOf(Top.k).lst]) :
            \E r \in Ev("recv") : log[r].k = Top.k /\ log[r].c = heap[CallOf(Top.k).lst][m]

\* C17, the broadcast that does not finish: once a registrar has been
\* invoked for a call, the body is not executed for it and it does not
\* return; each time its broadcast is at the for statement again, a
\* suspended registrar that watches the called function and has not
\* received the record yet is still ahead in the list.
C17_RegistrarNeverDone ==
    \A q \in Ev("call") :
        FiredWith(log[q].k, "registrar") =>
            /\ OnStack(log[q].k)
            /\ exc = "none"
            /\ \A r \in Ev("body") : log[r].k # log[q].k
            /\ (Top.t = "call" /\ Top.k = log[q].k) =>
                  LET l == heap[Top.lst] IN
                  \E m \in Top.i..Len(l) :
                      /\ gens[l[m]].action = "registrar"
                      /\ gens[l[m]].st = "suspended"
                      /\ WatchesName(l[m], Top.fn)
                      /\ \A r \in Ev("recv") : ~(log[r].k = Top.k /\ log[r].c = l[m])

C17_LiveListIterated == C17_AppendedReceive /\ C17_RegistrarNeverDone

\* In one call, a registrar was invoked, and the consumer it registered was
\* sent the record of that call and invoked too; and the consumer that one
\* registered is next.
C17_Witness ==
    \E q \in Ev("fire"), r \in Ev("fire") :
        /\ q < r
        /\ log[q].k = log[r].k
        /\ gens[log[q].c].action = "registrar"
        /\ gens[log[r].c].action = "registrar"
        /\ \A m \in 1..Len(CallOf(log[q].k).reg) : CallOf(log[q].k).reg[m] # log[r].c
        /\ Top.t = "call"
        /\ Top.i <= Len(heap[Top.lst])

\* A consumer that register_print registered during the broadcast of a call
\* was invoked for that call, and the body has started.
C17_WitnessPrint ==
    /\ stack # <<>>
    /\ Top.t = "body"
    /\ \E r \in Ev("fire") :
          /\ log[r].k = Top.k
          /\ gens[log[r].c].action = "print_func_info"
          /\ \A m \in 1..Len(CallOf(Top.k).reg) : CallOf(Top.k).reg[m] # log[r].c

----------------------------------------------------------------------------
(* SpecInner: enter_pdb_on_error is registered on r, a function that       *)
(* registers a consumer each time it is executed.                          *)

NextInner ==
    \/ \E f \in {"r", "g"} : add_trigger(f)
    \/ call_trigger_func("enter_pdb_on_error", <<Obj("r")>>)
    \/ \E f \in {"r", "g"} : call_trigger_func("print_func_info", <<Obj(f)>>)
    \/ \E f \in {"r", "g"}, args \in ScopeArgs : call(f, args)
    \/ send
    \/ call_body
    \/ call_return
    \/ body_return
    \/ r_body
    \/ print_func_info
    \/ enter_pdb_on_error_call
    \/ enter_pdb_on_error_exit

SpecInner == Init /\ [][NextInner]_vars

\* C18, the outer broadcast: when the body starts for a call, every
\* consumer that was in the registry when the call was made, those after an
\* enter_pdb_on_error consumer that opened a scope during the broadcast
\* included, has received the record of the call exactly once.
C18_OuterBroadcastComplete ==
    (stack # <<>> /\ Top.t = "body" /\ Top.k > 0) =>
        \A m \in 1..Len(CallOf(Top.k).reg) :
            Cardinality({q \in Ev("recv") :
                            log[q].k = Top.k /\ log[q].c = CallOf(Top.k).reg[m]}) = 1

\* C18, the consumers registered inside: with no scope open, a consumer
\* that was registered with a scope open is in no list.
C18_InnerDropped ==
    ScopeDepth = 0 =>
        \A c \in 1..Len(gens) :
            born[c] > 0 =>
                \A l \in 1..Len(heap) : \A m \in 1..Len(heap[l]) : heap[l][m] # c

\* C18, the steps: a consumer registered while the scope of an
\* enter_pdb_on_error is open is appended to the list of the scope, and the
\* saved list is not changed; when the scope is left, the saved list is
\* live again as it was and the consumers of the list of the scope are in
\* no list.
C18_TemporaryList ==
    /\ (Len(gens') > Len(gens) /\ ScopeDepth > 0) =>
          /\ heap'[Actions] = Append(heap[Actions], Len(gens'))
          /\ \A l \in 1..Len(heap) : l # Actions => heap'[l] = heap[l]
          /\ \E j \in 1..Len(stack) :
                stack[j].pc = "try" /\ stack[j].lst = Actions /\ stack[j].save # Actions
    /\ (stack # <<>> /\ Top.t = "gen" /\ Top.pc \in {"try", "caught"}
        /\ Len(stack') < Len(stack)) =>
          /\ Actions' = Top.save
          /\ heap'[Actions'] = heap[Top.save]
          /\ \A m \in 1..Len(heap[Top.lst]) :
                \A l \in 1..Len(heap') : \A n \in 1..Len(heap'[l]) :
                    heap'[l][n] # heap[Top.lst][m]

C18_ScopeInsideBroadcast ==
    /\ [](C18_OuterBroadcastComplete /\ C18_InnerDropped)
    /\ [][C18_TemporaryList]_vars

\* The body of r is starting for a call whose registry was an
\* enter_pdb_on_error consumer followed by a consumer watching r: the
\* first has executed r in its scope, where r registered a consumer that is
\* in no list now, and the second has been invoked since.
C18_Witness ==
    /\ stack # <<>>
    /\ Top.t = "body"
    /\ Top.k = 1
    /\ Top.fn = "r"
    /\ Len(CallOf(1).reg) = 2
    /\ gens[CallOf(1).reg[1]].action = "enter_pdb_on_error"
    /\ gens[CallOf(1).reg[2]].action = "print_func_info"
    /\ \E q \in Ev("exit"), r \in Ev("fire") : q < r /\ log[r].c = CallOf(1).reg[2]
    /\ \E c \in 1..Len(gens) : born[c] = 1
    /\ heap[Actions] = CallOf(1).reg

----------------------------------------------------------------------------
(* C19: predicates that raise, in the behaviours of SpecPred. *)

\* The conditions list of consumer c holds first_even.
HasFirstEven(c) ==
    \E j \in 1..Len(gens[c].conditions) : gens[c].conditions[j] = "first_even"

\* C19: a conditional consumer that receives a record with no arguments,
\* and has first_even anywhere in its conditions list, is finished by the
\* exception of first_even without invoking its action, whether or not it
\* watches the called function and whatever the predicates before
\* first_even say; the call fails and its body is not executed; and a
\* consumer is finished in no other case.
C19_PredicatesAlwaysEvaluated ==
    /\ \A q \in Ev("recv") :
          LET c == log[q].c
              k == log[q].k
          IN (gens[c].co = "conditional_action_on_triggers"
              /\ HasFirstEven(c) /\ log[q].args = <<>>) =>
                 /\ q < Len(log) /\ log[q + 1].e = "pred" /\ log[q + 1].c = c
                 /\ gens[c].st = "closed"
                 /\ FiresOf(k, c) = {}
                 /\ \A r \in Ev("body") : log[r].k # k
                 /\ \A r \in Ev("ret") : log[r].k # k
                 /\ \A r \in Ev("recv") : log[r].k = k => r <= q
                 /\ IF OnStack(k) THEN exc = "IndexError"
                    ELSE \E r \in Ev("exc") : log[r].k = k
    /\ \A q \in Ev("pred") : HasFirstEven(log[q].c) /\ log[q].args = <<>>
    /\ \A c \in 1..Len(gens) : gens[c].st = "closed" => HasFirstEven(c)

\* A consumer registered on f_a alone, with conditions [has_args,
\* first_even], has been finished by the record of g(): has_args was false
\* of it, g is not watched, and the call of g has failed.
C19_Witness ==
    \E q \in Ev("pred") :
        /\ log[q].fn = "g"
        /\ gens[log[q].c].conditions = <<"has_args", "first_even">>
        /\ gens[log[q].c].trigger = <<Raw("f_a")>>
        /\ ~OnStack(log[q].k)
        /\ \E r \in Ev("exc") : log[r].k = log[q].k

====
